---- MODULE Spec2Model ----
(***************************************************************************)
(* A model of rust-ar (src/src/lib.rs): the Header codec, the archive      *)
(* Builder, the Archive reader and its bounded Entry.                      *)
(*                                                                         *)
(* A byte is a one-character string ("a", " ", "\n"); NUL stands for the   *)
(* byte 0, BACKTICK for the byte 0x60 and XFF for a byte that is not valid *)
(* UTF-8.  Byte strings are sequences of bytes.  Identifiers of the model   *)
(* are ASCII, so the number of characters that format padding counts       *)
(* equals the number of bytes.  Numbers are kept below 2^31; u64/u32       *)
(* arithmetic cannot wrap on the values drawn here.                        *)
(***************************************************************************)
EXTENDS Integers, Sequences, FiniteSets, TLC

\* ------------------------------------------------------------------------
\* Bounds of the model
\* ------------------------------------------------------------------------

\* Most append calls on one Builder.
MaxAppends == 2
\* Longest payload source handed to append.
MaxPayload == 2
\* Most next_entry calls on one Archive.
MaxCalls == 4
\* Largest buffer handed to Entry::read.
MaxBuf == 2

\* ------------------------------------------------------------------------
\* Bytes and program constants
\* ------------------------------------------------------------------------

NUL == "NUL"
BACKTICK == "BACKTICK"
XFF == "xFF"

GLOBAL_HEADER_LEN == 8
GLOBAL_HEADER == <<"!", "<", "a", "r", "c", "h", ">", "\n">>

\* let mut buffer = [0; 60]
HEADER_LEN == 60
\* The widths of the format string "{:<16}{:<12}{:<6}{:<6}{:<8o}{:<10}" + terminator
\* and the slices buffer[0..16], [16..28], [28..34], [34..40], [40..48], [48..58].
ID_WIDTH == 16
MTIME_WIDTH == 12
UID_WIDTH == 6
GID_WIDTH == 6
MODE_WIDTH == 8
SIZE_WIDTH == 10
\* "#1/{:<13}" and buffer[3..16]
EXT_MARKER == <<"#", "1", "/">>
EXT_LEN_WIDTH == 13
\* (4 - len % 4) % 4
NAME_ALIGN == 4
TERMINATOR == <<BACKTICK, "\n">>

Min(a, b) == IF a < b THEN a ELSE b

\* ------------------------------------------------------------------------
\* Formatting (std::fmt as used by Header::write)
\* ------------------------------------------------------------------------

DigitChars == <<"0", "1", "2", "3", "4", "5", "6", "7", "8", "9">>

\* Display / Octal of an unsigned integer: no sign, no leading zeros.
RECURSIVE FormatRadix(_, _)
FormatRadix(n, radix) ==
    IF n < radix THEN <<DigitChars[n + 1]>>
    ELSE FormatRadix(n \div radix, radix) \o <<DigitChars[(n % radix) + 1]>>

Repeat(b, n) == [i \in 1..n |-> b]

\* "{:<w}": left-justified, filled with spaces up to w; never truncated.
PadLeftJustified(s, w) ==
    IF Len(s) >= w THEN s ELSE s \o Repeat(" ", w - Len(s))

\* self.identifier.contains(' ')
Contains(s, b) == \E i \in 1..Len(s) : s[i] = b

\* An encoder that takes the extended form for long identifiers only.
OnlyLongNames(h) == Len(h.identifier) > ID_WIDTH

\* if self.identifier.len() > 16 || self.identifier.contains(' ')
UsesExtendedForm(h) == Len(h.identifier) > ID_WIDTH \/ Contains(h.identifier, " ")

PaddingLength(h) == (NAME_ALIGN - (Len(h.identifier) % NAME_ALIGN)) % NAME_ALIGN
PaddedLength(h) == Len(h.identifier) + PaddingLength(h)

\* The text of the numeric fields and the terminator, common to both forms.
NumericFields(h, sizeField) ==
    PadLeftJustified(FormatRadix(h.mtime, 10), MTIME_WIDTH)
    \o PadLeftJustified(FormatRadix(h.uid, 10), UID_WIDTH)
    \o PadLeftJustified(FormatRadix(h.gid, 10), GID_WIDTH)
    \o PadLeftJustified(FormatRadix(h.mode, 8), MODE_WIDTH)
    \o PadLeftJustified(FormatRadix(sizeField, 10), SIZE_WIDTH)
    \o TERMINATOR

\* What write! emits up to and including the terminator.
HeaderRecord(h) ==
    IF UsesExtendedForm(h)
    THEN EXT_MARKER
         \o PadLeftJustified(FormatRadix(PaddedLength(h), 10), EXT_LEN_WIDTH)
         \o NumericFields(h, h.size + PaddedLength(h))
    ELSE PadLeftJustified(h.identifier, ID_WIDTH) \o NumericFields(h, h.size)

\* The identifier and its NUL padding that follow the record in the extended form.
NameExtension(h) ==
    IF UsesExtendedForm(h)
    THEN h.identifier \o Repeat(NUL, PaddingLength(h))
    ELSE <<>>

\* Header::write: all the bytes it hands to the writer.
HeaderWrite(h) == HeaderRecord(h) \o NameExtension(h)

\* ------------------------------------------------------------------------
\* Parsing (Header::read and parse_number)
\* ------------------------------------------------------------------------

\* Rust's bytes[a..b]
Slice(bytes, a, b) == SubSeq(bytes, a + 1, b)

\* str::from_utf8 succeeds: the model's only invalid byte is XFF.
IsUtf8(bytes) == \A i \in 1..Len(bytes) : bytes[i] # XFF

\* The characters str::trim_right removes (White_Space) among the model's bytes.
WhiteSpace == {" ", "\t", "\n", "\r"}

TrimRight(s) ==
    LET keep == {i \in 1..Len(s) : s[i] \notin WhiteSpace}
    IN  IF keep = {} THEN <<>>
        ELSE SubSeq(s, 1, CHOOSE i \in keep : \A j \in keep : j <= i)

IsDigit(b, radix) == \E d \in 0..(radix - 1) : DigitChars[d + 1] = b
DigitValue(b) == CHOOSE d \in 0..9 : DigitChars[d + 1] = b

RECURSIVE DigitsValue(_, _)
DigitsValue(s, radix) ==
    IF s = <<>> THEN 0
    ELSE DigitsValue(SubSeq(s, 1, Len(s) - 1), radix) * radix + DigitValue(s[Len(s)])

\* u64::from_str_radix: an optional "+", then one or more digits of the radix.
\* (No field is wide enough to exceed u64.)
FromStrRadix(s, radix) ==
    LET digits == IF s # <<>> /\ s[1] = "+" THEN Tail(s) ELSE s
    IN  IF digits # <<>> /\ \A i \in 1..Len(digits) : IsDigit(digits[i], radix)
        THEN [ok |-> TRUE, value |-> DigitsValue(digits, radix)]
        ELSE [ok |-> FALSE, value |-> 0]

\* parse_number
ParseNumber(bytes, radix) ==
    IF IsUtf8(bytes) THEN FromStrRadix(TrimRight(bytes), radix)
    ELSE [ok |-> FALSE, value |-> 0]

StartsWith(s, prefix) ==
    Len(s) >= Len(prefix) /\ SubSeq(s, 1, Len(prefix)) = prefix

\* while id_buffer.last() == Some(&0) { id_buffer.pop(); }
RECURSIVE StripTrailingNul(_)
StripTrailingNul(s) ==
    IF s # <<>> /\ s[Len(s)] = NUL THEN StripTrailingNul(SubSeq(s, 1, Len(s) - 1))
    ELSE s

NoHeader == [identifier |-> <<>>, mtime |-> 0, uid |-> 0, gid |-> 0, mode |-> 0, size |-> 0]

\* The outcomes of Header::read: Ok(None), Err(error) and Ok(Some(header)),
\* each with the number of bytes taken from the reader.
ReadNone == [kind |-> "none", error |-> "", header |-> NoHeader, consumed |-> 0]
ReadErr(msg, n) == [kind |-> "err", error |-> msg, header |-> NoHeader, consumed |-> n]
ReadOk(h, n) == [kind |-> "entry", error |-> "", header |-> h, consumed |-> n]

\* The chunk of a source that fills every buffer it is given as far as its
\* bytes go (a slice, a Vec, a Cursor).
Unlimited == 0

\* One call of Read::read on the source: the bytes it returns for a buffer of
\* n bytes when `rest` bytes are left.  A source with a chunk returns at most
\* that many bytes per call (a pipe, a socket), which Read allows.
SourceRead(chunk, rest, n) ==
    IF chunk = Unlimited THEN Min(rest, n) ELSE Min(chunk, Min(rest, n))

\* A check that also rejects an entry whose payload is empty.
SizeNotAboveName(size, padded_length) == size <= padded_length

\* if size < padded_length { return Err(InvalidData) }
SizeBelowName(size, padded_length) == size < padded_length

\* The extended-name part of Header::read; `rest` is what follows the record.
ReadExtended(buffer, rest, chunk, mtime, uid, gid, mode, size) ==
    LET padded_length == ParseNumber(Slice(buffer, Len(EXT_MARKER), ID_WIDTH), 10)
        bytes_read == SourceRead(chunk, Len(rest), padded_length.value)
        id_buffer == StripTrailingNul(SubSeq(rest, 1, padded_length.value))
    IN  IF ~padded_length.ok THEN ReadErr("InvalidData: numeric field", HEADER_LEN)
        ELSE IF SizeBelowName(size, padded_length.value)
             THEN ReadErr("InvalidData: size smaller than identifier length", HEADER_LEN)
        ELSE IF bytes_read < padded_length.value
             THEN ReadErr("UnexpectedEof: extended identifier", HEADER_LEN + bytes_read)
        ELSE IF ~IsUtf8(id_buffer)
             THEN ReadErr("InvalidData: non-UTF8 extended identifier",
                          HEADER_LEN + bytes_read)
        ELSE ReadOk([identifier |-> id_buffer, mtime |-> mtime, uid |-> uid,
                     gid |-> gid, mode |-> mode, size |-> size - padded_length.value],
                    HEADER_LEN + bytes_read)

\* A decoder that takes a record cut short for the end of the archive.
FewerThanHeader(bytes_read) == bytes_read < HEADER_LEN

\* if bytes_read == 0 { return Ok(None) }
AtEndOfSource(bytes_read) == bytes_read = 0

\* Header::read on the bytes `input` left in a reader with the given chunk.
HeaderRead(input, chunk) ==
    LET bytes_read == SourceRead(chunk, Len(input), HEADER_LEN)
        buffer == SubSeq(input, 1, HEADER_LEN)
        identifier == TrimRight(Slice(buffer, 0, ID_WIDTH))
        o1 == ID_WIDTH
        o2 == o1 + MTIME_WIDTH
        o3 == o2 + UID_WIDTH
        o4 == o3 + GID_WIDTH
        o5 == o4 + MODE_WIDTH
        o6 == o5 + SIZE_WIDTH
        mtime == ParseNumber(Slice(buffer, o1, o2), 10)
        uid == ParseNumber(Slice(buffer, o2, o3), 10)
        gid == ParseNumber(Slice(buffer, o3, o4), 10)
        mode == ParseNumber(Slice(buffer, o4, o5), 8)
        size == ParseNumber(Slice(buffer, o5, o6), 10)
    IN  IF AtEndOfSource(bytes_read) THEN ReadNone
        ELSE IF bytes_read < HEADER_LEN
             THEN ReadErr("UnexpectedEof: entry header", bytes_read)
        ELSE IF ~IsUtf8(Slice(buffer, 0, ID_WIDTH))
             THEN ReadErr("InvalidData: non-UTF8 identifier", HEADER_LEN)
        ELSE IF ~(mtime.ok /\ uid.ok /\ gid.ok /\ mode.ok /\ size.ok)
             THEN ReadErr("InvalidData: numeric field", HEADER_LEN)
        ELSE IF StartsWith(identifier, EXT_MARKER)
             THEN ReadExtended(buffer, SubSeq(input, HEADER_LEN + 1, Len(input)),
                               chunk, mtime.value, uid.value, gid.value, mode.value,
                               size.value)
        ELSE ReadOk([identifier |-> identifier, mtime |-> mtime.value,
                     uid |-> uid.value, gid |-> gid.value, mode |-> mode.value,
                     size |-> size.value], HEADER_LEN)
\* (The casts `as u32` of uid, gid and mode change nothing: a field of 6
\* decimal or 8 octal digits holds a value below 2^32.)

\* ------------------------------------------------------------------------
\* Builder
\* ------------------------------------------------------------------------

\* if !self.started { write_all(GLOBAL_HEADER) }: the bytes written first.
MagicIfNotStarted(b) == IF ~b.started THEN GLOBAL_HEADER ELSE <<>>

\* A builder that forgets to set the flag.
StartedNotSet(b) == b.started

\* self.started = true, once the magic is out; an append never clears it.
StartedAfterAppend(b) == TRUE

\* A check that only catches a payload source shorter than declared.
SizeAtLeast(h, actual_size) == actual_size >= h.size

\* if actual_size != header.size() { return Err(..) }
SizeMatches(h, actual_size) == actual_size = h.size

\* A builder that ends every entry with a newline.
PaddingAlways(actual_size) == <<"\n">>

\* if actual_size % 2 != 0 { write_all(&['\n']) }
PaddingAfter(actual_size) == IF actual_size % 2 # 0 THEN <<"\n">> ELSE <<>>

\* Builder::append on a sink that accepts every write and a payload source
\* that yields `data` and then ends: the builder after the call, the result,
\* and how often the magic was written.
BuilderAppend(b, h, data) ==
    LET magic == MagicIfNotStarted(b)
        actual_size == Len(data)
        copied == b.writer \o magic \o HeaderWrite(h) \o data
        ok == SizeMatches(h, actual_size)
        written == IF ok THEN copied \o PaddingAfter(actual_size) ELSE copied
    IN  [builder |-> [writer |-> written,
                      started |-> IF b.started THEN TRUE ELSE StartedAfterAppend(b)],
         result |-> IF ok THEN "Ok" ELSE "Err(InvalidData: wrong file size)",
         header_at |-> Len(b.writer) + Len(magic),
         end_at |-> Len(written),
         magic_written |-> IF magic = <<>> THEN 0 ELSE 1]

\* ------------------------------------------------------------------------
\* Archive reader and Entry
\* ------------------------------------------------------------------------

\* The bytes the reader has not consumed yet.
Remaining(r) == SubSeq(r.buf, r.pos + 1, Len(r.buf))

\* Read::read_exact of n bytes: calls read until the buffer is full, or fails
\* with UnexpectedEof once the source is exhausted, whatever the chunk.
ReadExact(r, n) ==
    LET got == Min(n, Len(r.buf) - r.pos)
    IN  [ok |-> got = n,
         bytes |-> SubSeq(r.buf, r.pos + 1, r.pos + got),
         reader |-> [r EXCEPT !.pos = r.pos + got]]

NextNone == [kind |-> "none", error |-> "", header |-> NoHeader]
NextErr(msg) == [kind |-> "err", error |-> msg, header |-> NoHeader]
NextEntryOk(h) == [kind |-> "entry", error |-> "", header |-> h]

\* A reader that stays open after a header error.
FinishedUnlessHeaderError(kind) == kind # "header"

\* A reader that does not remember the end of the archive.
FinishedOnErrorOnly(kind) == kind # "none"

\* self.finished = true on every error path and on Ok(None).
FinishedAfter(kind) == TRUE

Finish(a, r, kind) == [a EXCEPT !.reader = r, !.finished = FinishedAfter(kind)]

\* A reader that expects no padding byte after any entry.
PaddingNeverExpected(a, size) == a.padding

\* if size % 2 != 0 { self.padding = true; }
PaddingAfterEntry(a, size) == IF size % 2 # 0 THEN TRUE ELSE a.padding

\* self.reader.by_ref().take(size)
TakeLimit(size) == size

\* The value of decode_at for a next_entry call that returns before
\* Header::read.
NotDecoded == -1

\* The last step of next_entry: match Header::read(&mut self.reader); with
\* the reader's position at which Header::read starts.
NextEntryHeader(a) ==
    LET got == HeaderRead(Remaining(a.reader), a.reader.chunk)
        r == [a.reader EXCEPT !.pos = a.reader.pos + got.consumed]
    IN  CASE got.kind = "entry" ->
               [archive |-> [a EXCEPT !.reader = r,
                                      !.padding = PaddingAfterEntry(a, got.header.size)],
                result |-> NextEntryOk(got.header),
                limit |-> TakeLimit(got.header.size),
                decode_at |-> a.reader.pos]
          [] got.kind = "none" ->
               [archive |-> Finish(a, r, "none"), result |-> NextNone, limit |-> 0,
                decode_at |-> a.reader.pos]
          [] OTHER ->
               [archive |-> Finish(a, r, "header"), result |-> NextErr(got.error),
                limit |-> 0, decode_at |-> a.reader.pos]

\* if self.padding { read one byte, require "\n" }, then the header.
NextEntryPadding(a) ==
    LET got == ReadExact(a.reader, 1)
    IN  IF ~a.padding THEN NextEntryHeader(a)
        ELSE IF ~got.ok
             THEN [archive |-> Finish(a, got.reader, "padding"),
                   result |-> NextErr("UnexpectedEof: failed to fill whole buffer"),
                   limit |-> 0, decode_at |-> NotDecoded]
        ELSE IF got.bytes # <<"\n">>
             THEN [archive |-> Finish(a, got.reader, "padding"),
                   result |-> NextErr("InvalidData: invalid padding byte"),
                   limit |-> 0, decode_at |-> NotDecoded]
        ELSE NextEntryHeader([a EXCEPT !.reader = got.reader, !.padding = FALSE])

\* A comparison that leaves out the last byte of the magic.
MagicMatchesButLast(bytes) ==
    SubSeq(bytes, 1, GLOBAL_HEADER_LEN - 1) = SubSeq(GLOBAL_HEADER, 1, GLOBAL_HEADER_LEN - 1)

\* &buffer != GLOBAL_HEADER.as_bytes()
MagicMatches(bytes) == bytes = GLOBAL_HEADER

\* if !self.started { read 8 bytes, require the magic }, then the rest.
NextEntryStart(a) ==
    LET got == ReadExact(a.reader, GLOBAL_HEADER_LEN)
    IN  IF a.started THEN NextEntryPadding(a)
        ELSE IF ~got.ok
             THEN [archive |-> Finish(a, got.reader, "magic"),
                   result |-> NextErr("UnexpectedEof: failed to fill whole buffer"),
                   limit |-> 0, decode_at |-> NotDecoded]
        ELSE IF ~MagicMatches(got.bytes)
             THEN [archive |-> Finish(a, got.reader, "magic"),
                   result |-> NextErr("InvalidData: not an archive file"),
                   limit |-> 0, decode_at |-> NotDecoded]
        ELSE NextEntryPadding([a EXCEPT !.reader = got.reader, !.started = TRUE])

\* Archive::next_entry
ArchiveNextEntry(a) ==
    IF a.finished
    THEN [archive |-> a, result |-> NextNone, limit |-> 0, decode_at |-> NotDecoded]
    ELSE NextEntryStart(a)

\* A read that ignores the limit.
TakeReadUnbounded(r, limit, n) == SourceRead(r.chunk, Len(r.buf) - r.pos, n)

\* io::Take::read through Entry::read with a buffer of n bytes: how many bytes
\* it delivers.
TakeRead(r, limit, n) ==
    IF limit = 0 THEN 0
    ELSE SourceRead(r.chunk, Len(r.buf) - r.pos, Min(n, limit))

\* A drop that leaves the unread bytes in the source.
DropWithoutDrain(r, limit) == 0

\* Drop for Entry: io::copy(&mut self.reader, &mut io::sink()) reads until the
\* Take is at its limit or the source ends, whatever the chunk; how many bytes
\* it consumes.
DropDrain(r, limit) ==
    IF limit > 0 THEN Min(limit, Len(r.buf) - r.pos) ELSE 0

\* ------------------------------------------------------------------------
\* Inputs
\* ------------------------------------------------------------------------

Hdr(id, mtime, uid, gid, mode) ==
    [identifier |-> id, mtime |-> mtime, uid |-> uid, gid |-> gid, mode |-> mode,
     size |-> 0]

\* Header::new(identifier, 0)
HeaderNew(id) == Hdr(id, 0, 0, 0, 0)

\* header1 of the tests: foo.txt, mode 0o100644
FooTxt == Hdr(<<"f", "o", "o", ".", "t", "x", "t">>, 1487552916, 501, 20, 33188)
\* an identifier of exactly 16 bytes
Sixteen == HeaderNew(<<"s", "i", "x", "t", "e", "e", "n", ".", "b", "y", "t", "e",
                       "s", ".", "i", "d">>)
\* an identifier of 17 bytes
Seventeen == HeaderNew(<<"s", "e", "v", "e", "n", "t", "e", "e", "n", ".", "b", "y",
                         "t", "e", "s", ".", "x">>)
\* the identifier of build_archive_with_space_in_filename
FooBar == HeaderNew(<<"f", "o", "o", " ", "b", "a", "r">>)
\* a uid of seven decimal digits
BigUid == Hdr(<<"a">>, 0, 1000000, 0, 0)
\* a short identifier that starts with the extended-form marker
MarkerName == HeaderNew(<<"#", "1", "/", "1">>)
\* a mode of nine octal digits (0o100000000) on an identifier with a space
BigMode == Hdr(<<"b", " ", "m">>, 0, 0, 0, 16777216)

PayloadAlphabet == <<"b", "\n", "z">>
\* The payload of n bytes.
Payload(n) == [i \in 1..n |-> PayloadAlphabet[((i - 1) % Len(PayloadAlphabet)) + 1]]

WithSize(h, n) == [h EXCEPT !.size = n]

\* One header in the short form and one in the extended form go with every
\* payload length; the others with an empty and a one-byte payload.
AllSizes == {FooTxt, Seventeen}
SmallSizes == {Sixteen, FooBar, BigUid, MarkerName, BigMode}

\* What append is called with: a header with a payload of its declared size,
\* and foo.txt with a payload one byte shorter or longer than declared.
AppendInputs ==
    {[header |-> WithSize(t, n), data |-> Payload(n)] :
        t \in AllSizes, n \in 0..MaxPayload}
    \cup {[header |-> WithSize(t, n), data |-> Payload(n)] :
        t \in SmallSizes, n \in 0..1}
    \cup {[header |-> WithSize(FooTxt, n + 1), data |-> Payload(n)] : n \in 0..MaxPayload}
    \cup {[header |-> WithSize(FooTxt, n - 1), data |-> Payload(n)] : n \in 1..MaxPayload}

\* Sources that no Builder wrote.  A well-formed entry of them is foo.txt
\* with the payload of n bytes.
RawEntry(n) == HeaderWrite(WithSize(FooTxt, n)) \o Payload(n)
\* "!<arch>" followed by a carriage return
BadMagic == <<"!", "<", "a", "r", "c", "h", ">", "\r">>
\* s with the byte at 0-based offset i replaced by b
Patch(s, i, b) == [s EXCEPT ![i + 1] = b]

RawSources ==
    { <<>>,                                             \* an empty source
      SubSeq(GLOBAL_HEADER, 1, 5),                      \* fewer than 8 bytes
      BadMagic \o RawEntry(2) \o RawEntry(0),           \* wrong magic, then entries
      GLOBAL_HEADER,                                    \* no entry
      GLOBAL_HEADER \o SubSeq(RawEntry(0), 1, 30),      \* header cut short
      GLOBAL_HEADER \o RawEntry(1) \o <<"x">> \o RawEntry(0),  \* wrong padding byte
      GLOBAL_HEADER \o RawEntry(1),                     \* padding byte missing
      GLOBAL_HEADER \o RawEntry(3) \o <<"\n">> \o RawEntry(2), \* well-formed
      GLOBAL_HEADER \o HeaderWrite(WithSize(FooTxt, 3)) \o Payload(1),  \* payload cut short
      GLOBAL_HEADER \o HeaderWrite(WithSize(FooTxt, 2)) \o Payload(1),  \* the same, even size
      GLOBAL_HEADER \o Patch(RawEntry(0), 28, "x"),     \* uid is not a number
      GLOBAL_HEADER \o Patch(RawEntry(0), 0, XFF),      \* identifier is not UTF-8
      GLOBAL_HEADER \o Patch(HeaderWrite(WithSize(FooBar, 1)), 48, "7") \o Payload(1),
                                                        \* size 7 < name length 8
      GLOBAL_HEADER \o Patch(RawEntry(2), 58, "x") \o RawEntry(0)  \* wrong terminator
    }

\* The most bytes one read call returns, for the sources that do not fill the
\* buffer they are given: byte by byte, in pieces shorter than a header record,
\* and in pieces that hold one.
ChunkSizes == {1, 32, 64}

\* ------------------------------------------------------------------------
\* State
\* ------------------------------------------------------------------------

VARIABLES
    phase,       \* "building": a Builder is in use; "reading": an Archive is
    builder,     \* Builder { writer, started }
    archive,     \* Archive { reader, started, padding, finished }
    entry,       \* the Entry the caller holds: live, header, limit (Take's limit)
    \* history
    origin,      \* where the archive's source comes from: "", "built" or "raw"
    calls,       \* the append calls made: header, data, result, and the offsets
                 \* of the output where the header record starts and the call ends
    magic_writes,\* how often append wrote the global header
    log,         \* what each next_entry call returned
    payload_at,  \* the reader's position when the last Entry was made
    delivered,   \* the bytes Entry::read has returned for the last Entry
    last_read,   \* the return value of the last Entry::read, -1 if none
    call_at,     \* the reader's position when next_entry was last called
    decode_at,   \* the position at which that call started Header::read
    op           \* the last operation

vars == <<phase, builder, archive, entry, origin, calls, magic_writes, log,
          payload_at, delivered, last_read, call_at, decode_at, op>>

NoEntry == [live |-> FALSE, header |-> NoHeader, limit |-> 0]

\* Archive::new(reader), the reader being the bytes of the source, the
\* position in them and the chunk of the source.
ArchiveOver(buf, chunk) ==
    [reader |-> [buf |-> buf, pos |-> 0, chunk |-> chunk], started |-> FALSE,
     padding |-> FALSE, finished |-> FALSE]

\* Archive::new on an in-memory source
ArchiveNew(buf) == ArchiveOver(buf, Unlimited)

\* Builder::new(Vec::new()); no Archive yet.
Init ==
    /\ phase = "building"
    /\ builder = [writer |-> <<>>, started |-> FALSE]
    /\ archive = ArchiveNew(<<>>)
    /\ entry = NoEntry
    /\ origin = ""
    /\ calls = <<>>
    /\ magic_writes = 0
    /\ log = <<>>
    /\ payload_at = 0
    /\ delivered = <<>>
    /\ last_read = -1
    /\ call_at = 0
    /\ decode_at = NotDecoded
    /\ op = "new"

readerVars == <<archive, entry, origin, log, payload_at, delivered, last_read,
                call_at, decode_at>>

\* builder.append(&header, data)
AppendCall(in) ==
    /\ phase = "building"
    /\ Len(calls) < MaxAppends
    /\ LET out == BuilderAppend(builder, in.header, in.data)
       IN  /\ builder' = out.builder
           /\ calls' = Append(calls, [header |-> in.header, data |-> in.data,
                                      result |-> out.result,
                                      header_at |-> out.header_at,
                                      end_at |-> out.end_at])
           /\ magic_writes' = magic_writes + out.magic_written
    /\ op' = "append"
    /\ UNCHANGED <<phase, readerVars>>

AllOk == \A i \in 1..Len(calls) : calls[i].result = "Ok"

\* Archive::new(builder.into_inner()): the caller reads back what it built,
\* which it does only when no append has failed.
ReadBuilt ==
    /\ phase = "building"
    /\ calls # <<>>
    /\ AllOk
    /\ phase' = "reading"
    /\ archive' = ArchiveNew(builder.writer)
    /\ origin' = "built"
    /\ op' = "Archive::new"
    /\ UNCHANGED <<builder, entry, calls, magic_writes, log, payload_at, delivered,
                   last_read, call_at, decode_at>>

\* Archive::new(src) on a source that comes from elsewhere.
ReadRaw(src) ==
    /\ phase = "building"
    /\ calls = <<>>
    /\ phase' = "reading"
    /\ archive' = ArchiveNew(src)
    /\ origin' = "raw"
    /\ op' = "Archive::new"
    /\ UNCHANGED <<builder, entry, calls, magic_writes, log, payload_at, delivered,
                   last_read, call_at, decode_at>>

\* Archive::new(src) on a source that returns at most `chunk` bytes per read.
ReadChunked(src, chunk) ==
    /\ phase = "building"
    /\ calls = <<>>
    /\ phase' = "reading"
    /\ archive' = ArchiveOver(src, chunk)
    /\ origin' = "raw"
    /\ op' = "Archive::new"
    /\ UNCHANGED <<builder, entry, calls, magic_writes, log, payload_at, delivered,
                   last_read, call_at, decode_at>>

\* archive.next_entry(); the borrow rules allow it only when no Entry is held.
NextEntry ==
    /\ phase = "reading"
    /\ ~entry.live
    /\ Len(log) < MaxCalls
    /\ LET out == ArchiveNextEntry(archive)
       IN  /\ archive' = out.archive
           /\ log' = Append(log, out.result)
           /\ decode_at' = out.decode_at
           /\ IF out.result.kind = "entry"
              THEN /\ entry' = [live |-> TRUE, header |-> out.result.header,
                                limit |-> out.limit]
                   /\ payload_at' = out.archive.reader.pos
                   /\ delivered' = <<>>
              ELSE UNCHANGED <<entry, payload_at, delivered>>
    /\ last_read' = -1
    /\ call_at' = archive.reader.pos
    /\ op' = "next_entry"
    /\ UNCHANGED <<phase, builder, origin, calls, magic_writes>>

\* entry.read(&mut buf) with buf.len() = n
EntryRead(n) ==
    /\ entry.live
    /\ LET k == TakeRead(archive.reader, entry.limit, n)
       IN  /\ archive' = [archive EXCEPT !.reader.pos = @ + k]
           /\ entry' = [entry EXCEPT !.limit = @ - k]
           /\ delivered' = delivered \o SubSeq(archive.reader.buf,
                                               archive.reader.pos + 1,
                                               archive.reader.pos + k)
           /\ last_read' = k
    /\ op' = "read"
    /\ UNCHANGED <<phase, builder, origin, calls, magic_writes, log, payload_at,
                   call_at, decode_at>>

\* The Entry goes out of scope: Drop for Entry.
EntryDrop ==
    /\ entry.live
    /\ archive' = [archive EXCEPT
                     !.reader.pos = @ + DropDrain(archive.reader, entry.limit)]
    /\ entry' = [entry EXCEPT !.live = FALSE]
    /\ op' = "drop"
    /\ UNCHANGED <<phase, builder, origin, calls, magic_writes, log, payload_at,
                   delivered, last_read, call_at, decode_at>>

Next ==
    \/ \E in \in AppendInputs : AppendCall(in)
    \/ ReadBuilt
    \/ \E src \in RawSources : ReadRaw(src)
    \/ NextEntry
    \/ \E n \in 1..MaxBuf : EntryRead(n)
    \/ EntryDrop

Spec == Init /\ [][Next]_vars

\* The reader over sources that deliver their bytes in pieces.
NextChunked ==
    \/ \E src \in RawSources, chunk \in ChunkSizes : ReadChunked(src, chunk)
    \/ NextEntry
    \/ \E n \in 1..MaxBuf : EntryRead(n)
    \/ EntryDrop

\* The reader over every source, used by a caller that keeps calling
\* next_entry and lets go of every Entry it is given.
NextAnySource ==
    \/ Next
    \/ \E src \in RawSources, chunk \in ChunkSizes : ReadChunked(src, chunk)

\* When next_entry can be called: the conditions of NextEntry.  The rest of
\* NextEntry gives every variable its next value and makes log longer, so
\* this is ENABLED <<NextEntry>>_vars.
CanCallNext == phase = "reading" /\ ~entry.live /\ Len(log) < MaxCalls

\* Weak fairness of EntryDrop and of NextEntry, the latter written out with
\* CanCallNext for its enabling condition.
SpecFair ==
    /\ Init
    /\ [][NextAnySource]_vars
    /\ WF_vars(EntryDrop)
    /\ ([]<>(~CanCallNext) \/ []<><<NextEntry>>_vars)

SpecChunked == Init /\ [][NextChunked]_vars

\* ------------------------------------------------------------------------
\* Claims
\* ------------------------------------------------------------------------

Buf == archive.reader.buf
Pos == archive.reader.pos
HasNul(s) == Contains(s, NUL)
\* The first next_entry call returned the header h and, once the Entry has
\* been read to its end, its reads delivered `data`.
FirstEntryIs(h, data) ==
    /\ log[1].kind = "entry"
    /\ log[1].header = h
    /\ (Len(log) = 1 /\ entry.limit = 0 => delivered = data)

\* C1: a header in the short form (identifier of at most 16 bytes, no space)
\* and its payload, appended and then read back with next_entry, yield the
\* same identifier, mtime, uid, gid, mode, size and payload bytes.
C1_ShortRoundTrip ==
    (origin = "built" /\ log # <<>> /\ ~UsesExtendedForm(calls[1].header))
        => FirstEntryIs(calls[1].header, calls[1].data)

\* C2: a header in the extended form (identifier longer than 16 bytes or with
\* a space, without NUL) and its payload, appended and then read back, yield
\* the same identifier, fields and payload, the size being the payload's.
C2_ExtendedRoundTrip ==
    (origin = "built" /\ log # <<>> /\ UsesExtendedForm(calls[1].header)
     /\ ~HasNul(calls[1].header.identifier))
        => FirstEntryIs(calls[1].header, calls[1].data)

\* A header whose record Header::write lays out in the columns of the
\* format: every number fits its field, and a short identifier neither ends
\* in white space nor starts with the extended-form marker.
InColumns(h) ==
    /\ Len(HeaderRecord(h)) = HEADER_LEN
    /\ UsesExtendedForm(h) \/ ~StartsWith(h.identifier, EXT_MARKER)
    /\ TrimRight(h.identifier) = h.identifier
    /\ StripTrailingNul(h.identifier) = h.identifier

\* The archive read is the output of appends that all wrote such headers.
WellFormedArchive ==
    origin = "built" /\ \A i \in 1..Len(calls) : InColumns(calls[i].header)

\* C3: after an Entry is dropped the reader stands at the end of the entry's
\* declared payload, whatever part of it was read, whenever the source holds
\* that payload; over a well-formed archive every next_entry call then
\* decodes the header of the next entry.
C3_CursorAfterDrop ==
    /\ (op = "drop" /\ payload_at + entry.header.size <= Len(Buf))
          => Pos = payload_at + entry.header.size
    /\ WellFormedArchive =>
          \A k \in 1..Min(Len(log), Len(calls)) :
              log[k].kind = "entry" /\ log[k].header = calls[k].header

C3_Witness ==
    /\ op = "drop"
    /\ WellFormedArchive
    /\ Len(calls) >= 2
    /\ entry.header.size >= 2
    /\ Len(delivered) = 1
    /\ payload_at + entry.header.size < Len(Buf)

\* C4: the reads of an Entry deliver at most size bytes, all of them from the
\* payload that starts where the Entry was made, and the reader never moves
\* past the payload while the Entry is held; a read at the limit returns 0.
C4_ReadsBounded ==
    /\ Len(delivered) <= entry.header.size
    /\ delivered = SubSeq(Buf, payload_at + 1, payload_at + Len(delivered))
    /\ entry.live => Pos = payload_at + Len(delivered)
    /\ (op = "read" /\ Len(delivered) - last_read = entry.header.size) => last_read = 0

C4_Witness ==
    /\ op = "read"
    /\ last_read = 0
    /\ entry.header.size > 0
    /\ Len(delivered) = entry.header.size
    /\ Pos < Len(Buf)

Ended(i) == log[i].kind \in {"err", "none"}

\* C5: once a next_entry call has returned an error or None, every later
\* call returns None.
C5_FinishedIsTerminal ==
    \A i, j \in 1..Len(log) : (i < j /\ Ended(i)) => log[j].kind = "none"

C5_Witness ==
    /\ Len(log) >= 3
    /\ log[1].kind = "entry"
    /\ log[2].kind = "err"
    /\ Pos < Len(Buf)

BadGlobalHeader ==
    Len(Buf) < GLOBAL_HEADER_LEN \/ SubSeq(Buf, 1, GLOBAL_HEADER_LEN) # GLOBAL_HEADER

\* C6: when the source does not start with the 8 bytes of the magic, the
\* first next_entry call returns an error, the reader is finished, and every
\* later call returns None.
C6_BadMagic ==
    (phase = "reading" /\ BadGlobalHeader /\ log # <<>>)
        => /\ log[1].kind = "err"
           /\ archive.finished
           /\ \A j \in 2..Len(log) : log[j].kind = "none"

C6_Witness ==
    /\ phase = "reading"
    /\ Len(Buf) > GLOBAL_HEADER_LEN + HEADER_LEN
    /\ BadGlobalHeader
    /\ Len(log) >= 3

\* C7: the bytes every successful append writes for its entry (header
\* record, extended name, payload, padding) are even in number, so after
\* successful appends every header record starts at an even offset.
C7_EntryLengthEven ==
    \A i \in 1..Len(calls) :
        /\ calls[i].result = "Ok" => (calls[i].end_at - calls[i].header_at) % 2 = 0
        /\ (\A j \in 1..(i - 1) : calls[j].result = "Ok") => calls[i].header_at % 2 = 0

\* C8: reading back what n successful appends wrote yields the n entries in
\* the order of the appends and then None, without an error.
C8_EntriesInOrder ==
    origin = "built" =>
        \A k \in 1..Len(log) :
            IF k <= Len(calls)
            THEN log[k].kind = "entry" /\ log[k].header = calls[k].header
            ELSE log[k].kind = "none"

\* C9: the magic is written once, by the first append, at the start of the
\* output, and the builder is started from the first append on, failed
\* appends included.
C9_MagicOnce ==
    /\ magic_writes = (IF calls = <<>> THEN 0 ELSE 1)
    /\ builder.started <=> calls # <<>>
    /\ calls = <<>> => builder.writer = <<>>
    /\ calls # <<>> =>
          /\ SubSeq(builder.writer, 1, GLOBAL_HEADER_LEN) = GLOBAL_HEADER
          /\ calls[1].header_at = GLOBAL_HEADER_LEN

C9_Witness ==
    /\ Len(calls) >= 2
    /\ calls[1].result # "Ok"
    /\ calls[2].result = "Ok"

\* C10: append fails with the wrong-file-size error exactly when the payload
\* source yields a number of bytes other than header.size; the output then
\* ends with the header and the whole payload, without a padding byte.
C10_SizeMismatch ==
    \A i \in 1..Len(calls) :
        LET c == calls[i]
        IN  /\ c.result = "Err(InvalidData: wrong file size)"
                  <=> Len(c.data) # c.header.size
            /\ c.result \in {"Ok", "Err(InvalidData: wrong file size)"}
            /\ c.result # "Ok" =>
                  SubSeq(builder.writer, c.header_at + 1, c.end_at)
                      = HeaderWrite(c.header) \o c.data

C10_Witness ==
    \E i \in 1..Len(calls) :
        /\ calls[i].result # "Ok"
        /\ Len(calls[i].data) > calls[i].header.size
        /\ Len(calls[i].data) % 2 = 1
        /\ i < Len(calls)

\* All that an append call wrote after the global header.
Written(c) == SubSeq(builder.writer, c.header_at + 1, c.end_at)

\* C11: a successful append writes, after the payload, exactly one newline
\* when the payload length is odd and nothing when it is even; a payload of
\* length zero gets no padding.
C11_PaddingByte ==
    \A i \in 1..Len(calls) :
        LET c == calls[i]
            upToPayload == HeaderWrite(c.header) \o c.data
        IN  c.result = "Ok" =>
               /\ Len(c.data) % 2 = 1 => Written(c) = upToPayload \o <<"\n">>
               /\ Len(c.data) % 2 = 0 => Written(c) = upToPayload
               /\ i < Len(calls) => calls[i + 1].header_at = c.end_at

C11_Witness ==
    /\ Len(calls) >= 2
    /\ calls[1].result = "Ok" /\ Len(calls[1].data) % 2 = 1
    /\ calls[2].result = "Ok" /\ Len(calls[2].data) = 0

\* The header bytes an append call wrote: all it wrote but the payload and
\* the padding byte.
HeaderBytes(c) ==
    SubSeq(builder.writer, c.header_at + 1,
           c.end_at - Len(c.data)
               - (IF c.result = "Ok" THEN Len(c.data) % 2 ELSE 0))

EndsWith(s, t) ==
    Len(s) >= Len(t) /\ SubSeq(s, Len(s) - Len(t) + 1, Len(s)) = t

\* The short form: the identifier itself in the name field, and nothing
\* after the record's terminator.
ShortFormAt(c) ==
    /\ Slice(HeaderBytes(c), 0, ID_WIDTH) = PadLeftJustified(c.header.identifier, ID_WIDTH)
    /\ EndsWith(HeaderBytes(c), TERMINATOR)

\* The extended form: the marker in the name field, and the identifier with
\* its NUL padding after the record's terminator.
ExtendedFormAt(c) ==
    /\ StartsWith(HeaderBytes(c), EXT_MARKER)
    /\ \E k \in 0..(NAME_ALIGN - 1) :
           EndsWith(HeaderBytes(c),
                    TERMINATOR \o c.header.identifier \o Repeat(NUL, k))

\* C12: Header::write takes the short form exactly when the identifier is at
\* most 16 bytes long and holds no space; a longer identifier or one with a
\* space is written in the extended form.
C12_FormChoice ==
    \A i \in 1..Len(calls) :
        LET c == calls[i]
            fits == /\ Len(c.header.identifier) <= ID_WIDTH
                    /\ ~Contains(c.header.identifier, " ")
        IN  /\ fits => ShortFormAt(c) /\ ~ExtendedFormAt(c)
            /\ ~fits => ExtendedFormAt(c) /\ ~ShortFormAt(c)

C12_Witness ==
    /\ Len(calls) >= 2
    /\ Len(calls[1].header.identifier) = ID_WIDTH
    /\ ~Contains(calls[1].header.identifier, " ")
    /\ Len(calls[2].header.identifier) < ID_WIDTH
    /\ Contains(calls[2].header.identifier, " ")

\* The source ends before the declared payload of the last entry, and its
\* padding byte if the size is odd, is complete.
LastEntryCut ==
    /\ \E k \in 1..Len(log) : log[k].kind = "entry"
    /\ payload_at + entry.header.size + (entry.header.size % 2) > Len(Buf)

\* C13: when the source ends before an entry's declared payload and padding
\* byte are complete, next_entry does not report the end of the archive
\* unless an error was returned before (Entry::read returns no error at the
\* end of the source, so the error has to come from next_entry).
C13_TruncationReported ==
    LastEntryCut =>
        \A k \in 1..Len(log) :
            log[k].kind = "none" => \E j \in 1..(k - 1) : log[j].kind = "err"

\* The last next_entry call followed an entry.
AfterAnEntry == Len(log) >= 2 /\ log[Len(log) - 1].kind = "entry"

\* C14: a next_entry call that follows an entry of odd decoded size consumes
\* exactly one byte before it decodes the header; when that byte is missing
\* or is not a newline the call returns an error and the reader is finished.
\* After an entry of even size, zero included, the header is decoded at the
\* position where the call started.
C14_PaddingProtocol ==
    AfterAnEntry =>
        LET size == log[Len(log) - 1].header.size
            last == log[Len(log)]
        IN  IF size % 2 = 1
            THEN CASE call_at >= Len(Buf) ->
                        /\ last.kind = "err"
                        /\ last.error = "UnexpectedEof: failed to fill whole buffer"
                        /\ archive.finished
                        /\ decode_at = NotDecoded
                   [] call_at < Len(Buf) /\ Buf[call_at + 1] # "\n" ->
                        /\ last.kind = "err"
                        /\ last.error = "InvalidData: invalid padding byte"
                        /\ archive.finished
                        /\ decode_at = NotDecoded
                   [] OTHER -> decode_at = call_at + 1
            ELSE decode_at = call_at

C14_Witness ==
    /\ AfterAnEntry
    /\ log[Len(log) - 1].header.size % 2 = 1
    /\ call_at < Len(Buf)
    /\ Buf[call_at + 1] = "\n"
    /\ log[Len(log)].kind = "entry"
    /\ log[Len(log)].header.size = 0

\* C15: the header record written for every header value is exactly 60 bytes:
\* the fields start at the offsets 0, 16, 28, 34, 40 and 48, the terminator
\* is at the bytes 58 and 59, and only an extended name follows them.
C15_RecordIs60Bytes ==
    \A i \in 1..Len(calls) :
        LET c == calls[i]
            h == c.header
            rec == HeaderBytes(c)
        IN  /\ Len(rec) = HEADER_LEN + (IF UsesExtendedForm(h) THEN PaddedLength(h) ELSE 0)
            /\ Slice(rec, 16, 28) = PadLeftJustified(FormatRadix(h.mtime, 10), MTIME_WIDTH)
            /\ Slice(rec, 28, 34) = PadLeftJustified(FormatRadix(h.uid, 10), UID_WIDTH)
            /\ Slice(rec, 34, 40) = PadLeftJustified(FormatRadix(h.gid, 10), GID_WIDTH)
            /\ Slice(rec, 40, 48) = PadLeftJustified(FormatRadix(h.mode, 8), MODE_WIDTH)
            /\ ParseNumber(Slice(rec, 48, 58), 10).ok
            /\ Slice(rec, 58, 60) = TERMINATOR

\* The smallest multiple of 4 that is at least n.
NextMultipleOf4(n) == CHOOSE m \in n..(n + 3) : m % 4 = 0

\* C16: in the extended form the marker carries the smallest multiple of 4
\* that is at least the identifier's length, the size field carries the
\* payload size plus that number, and the 60-byte record is followed by the
\* identifier's bytes and the 0 to 3 NUL bytes that fill it up to that number.
C16_ExtendedLayout ==
    \A i \in 1..Len(calls) :
        LET c == calls[i]
            h == c.header
            rec == HeaderBytes(c)
            padded_length == NextMultipleOf4(Len(h.identifier))
        IN  UsesExtendedForm(h) =>
               /\ Slice(rec, 0, ID_WIDTH)
                      = EXT_MARKER \o PadLeftJustified(FormatRadix(padded_length, 10),
                                                       EXT_LEN_WIDTH)
               /\ Slice(rec, 48, 58)
                      = PadLeftJustified(FormatRadix(h.size + padded_length, 10),
                                         SIZE_WIDTH)
               /\ Slice(rec, 58, HEADER_LEN) = TERMINATOR
               /\ SubSeq(rec, HEADER_LEN + 1, Len(rec))
                      = h.identifier \o Repeat(NUL, padded_length - Len(h.identifier))

\* The 60 bytes at the position where the last next_entry call started
\* Header::read, when the source holds that many.
RecordDecoded == SubSeq(Buf, decode_at + 1, decode_at + HEADER_LEN)
MarkerLength == ParseNumber(Slice(RecordDecoded, Len(EXT_MARKER), ID_WIDTH), 10)
WireSize == ParseNumber(Slice(RecordDecoded, 48, 58), 10)

\* The last next_entry call decoded a record with the extended-name marker
\* and numeric fields that parse.
DecodedExtended ==
    /\ decode_at # NotDecoded
    /\ decode_at + HEADER_LEN <= Len(Buf)
    /\ IsUtf8(Slice(RecordDecoded, 0, ID_WIDTH))
    /\ StartsWith(TrimRight(Slice(RecordDecoded, 0, ID_WIDTH)), EXT_MARKER)
    /\ ParseNumber(Slice(RecordDecoded, 16, 28), 10).ok
    /\ ParseNumber(Slice(RecordDecoded, 28, 34), 10).ok
    /\ ParseNumber(Slice(RecordDecoded, 34, 40), 10).ok
    /\ ParseNumber(Slice(RecordDecoded, 40, 48), 8).ok
    /\ WireSize.ok
    /\ MarkerLength.ok

\* The source holds the N bytes of the name after the record, and they are
\* text.
NamePresent ==
    /\ decode_at + HEADER_LEN + MarkerLength.value <= Len(Buf)
    /\ IsUtf8(SubSeq(Buf, decode_at + HEADER_LEN + 1,
                     decode_at + HEADER_LEN + MarkerLength.value))

\* C17: decoding an extended-name header with marker length N and on-wire
\* size S gives the malformed-header error and a finished reader when S < N;
\* otherwise the N bytes after the record are consumed as the name, the
\* size reported is S - N, and the Entry is bounded to the S - N bytes that
\* start right after those N bytes.
C17_ExtendedDecode ==
    DecodedExtended =>
        LET N == MarkerLength.value
            S == WireSize.value
            last == log[Len(log)]
        IN  IF S < N
            THEN /\ last.kind = "err"
                 /\ last.error = "InvalidData: size smaller than identifier length"
                 /\ archive.finished
            ELSE NamePresent =>
                    /\ last.kind = "entry"
                    /\ last.header.identifier
                           = StripTrailingNul(SubSeq(Buf, decode_at + HEADER_LEN + 1,
                                                     decode_at + HEADER_LEN + N))
                    /\ last.header.size = S - N
                    /\ payload_at = decode_at + HEADER_LEN + N
                    /\ Len(delivered) + entry.limit = S - N
                    /\ Pos <= payload_at + (S - N)
                    /\ delivered = SubSeq(Buf, payload_at + 1, payload_at + Len(delivered))

C17_Witness ==
    /\ DecodedExtended
    /\ NamePresent
    /\ WireSize.value = MarkerLength.value + 2
    /\ Len(delivered) = 2
    /\ ~entry.live

\* C18: when a started reader comes to decode a header and the source has no
\* byte left, next_entry returns None without an error and the reader is
\* finished; when 1 to 59 bytes are left it returns the premature
\* end-of-stream error and the reader is finished.
C18_HeaderBoundary ==
    decode_at # NotDecoded =>
        LET left == Len(Buf) - decode_at
            last == log[Len(log)]
        IN  /\ archive.started
            /\ left = 0 =>
                  /\ last = NextNone
                  /\ archive.finished
            /\ left \in 1..(HEADER_LEN - 1) =>
                  /\ last = NextErr("UnexpectedEof: entry header")
                  /\ archive.finished

C18_Witness ==
    /\ decode_at # NotDecoded
    /\ Len(Buf) - decode_at \in 1..(HEADER_LEN - 1)
    /\ Len(log) >= 2
    /\ log[1].kind = "entry"

\* C19: Header::read accepts a 60-byte record only if its bytes 58 and 59 are
\* the terminator, a backtick and a newline; a record with other bytes there
\* gives an error.
C19_TerminatorChecked ==
    /\ decode_at # NotDecoded
    /\ decode_at + HEADER_LEN <= Len(Buf)
    /\ Slice(RecordDecoded, 58, HEADER_LEN) # TERMINATOR
    => log[Len(log)].kind = "err"

\* What n next_entry calls return over a source that fills every buffer, each
\* Entry being dropped before the next call.
RECURSIVE ReferenceLog(_, _)
ReferenceLog(a, n) ==
    IF n = 0 THEN <<>>
    ELSE LET out == ArchiveNextEntry(a)
             after == IF out.result.kind = "entry"
                      THEN [out.archive EXCEPT
                              !.reader.pos = @ + DropDrain(out.archive.reader, out.limit)]
                      ELSE out.archive
         IN  <<out.result>> \o ReferenceLog(after, n - 1)

\* C20: what the reader returns depends on the bytes of the source only, not
\* on how the source splits them across read calls: the next_entry results
\* are those of a source that fills every buffer, the payload bytes are the
\* same, and a premature end-of-stream error for a header or an extended
\* name is returned only when the source holds fewer bytes than required.
C20_ChunkingIndependence ==
    /\ log = ReferenceLog(ArchiveNew(Buf), Len(log))
    /\ delivered = SubSeq(Buf, payload_at + 1, payload_at + Len(delivered))
    /\ \A k \in 1..Len(log) :
          /\ k = Len(log)
          /\ log[k].kind = "err"
          => /\ log[k].error = "UnexpectedEof: entry header"
                   => Len(Buf) - decode_at < HEADER_LEN
             /\ log[k].error = "UnexpectedEof: extended identifier"
                   => Len(Buf) - decode_at - HEADER_LEN < MarkerLength.value

\* How many of the next_entry calls made so far have given an Entry.
EntriesYielded == Cardinality({k \in 1..Len(log) : log[k].kind = "entry"})

\* Every call that gives an Entry has consumed the header record, so the
\* entries given take 60 bytes each of the part of the source consumed.
EntriesBounded ==
    /\ Len(log) > 0 /\ log[Len(log)].kind = "entry"
          => payload_at >= call_at + HEADER_LEN
    /\ EntriesYielded * HEADER_LEN <= Pos
    /\ Pos <= Len(Buf)

\* The reader has come to its end: the last call returned None or an error
\* and every later call returns None.
ReaderDone ==
    /\ archive.finished
    /\ Len(log) > 0
    /\ log[Len(log)].kind \in {"none", "err"}
    /\ ArchiveNextEntry(archive).result = NextNone

\* C21: over a finite source a caller that keeps calling next_entry and lets
\* go of every Entry it is given comes to the finished state; every call that
\* gives an Entry has consumed at least the 60 bytes of its header, so the
\* number of entries is bounded by the length of the source.
C21_Termination ==
    /\ []EntriesBounded
    /\ (phase = "reading") ~> ReaderDone

C21_Witness ==
    /\ ReaderDone
    /\ EntriesYielded >= 2
    /\ log[Len(log)].kind = "none"
    /\ Pos = Len(Buf)

====
